---- MODULE Spec2Model ----
(***************************************************************************)
(* tk-meshroom: the Flow Production Tracking engine for Meshroom.          *)
(*                                                                         *)
(* The model covers the menu generator (python/tk_meshroom/                *)
(* menu_generation.py), the deferred command dispatcher (class Callback), *)
(* the automatic context switch of the engine (engine.py) and the scene    *)
(* operation hook (hooks/tk-multi-workfiles2/scene_operation.py).          *)
(*                                                                         *)
(* Strings are sequences of one-character strings, so that str.split("/") *)
(* and the ordering used by list.sort are computed, not assumed.  A fixed  *)
(* label of the program that is never split nor sorted against a shorter   *)
(* prefix is written as one token ("Other Items").                         *)
(***************************************************************************)
EXTENDS Integers, Sequences, FiniteSets, TLC

VARIABLES
    current_engine,   \* tank.platform.current_engine() is the engine (not None)
    has_ui,           \* MeshroomEngine.has_ui: meshroom.ui.uiInstance is set
    automatic_context_switch, \* the engine setting of that name
    context,          \* engine.context
    menu_generator,   \* engine._menu_generator is not None
    connected,        \* number of graphChanged -> update_engine_context connections
    menus,            \* the QMenu objects reachable from MenuGenerator._fptr_menu
    widget_deleted,   \* _fptr_menu_widget.deleteLater() was called
    scene_path,       \* uiInstance.activeProject.graph.filepath
    timers,           \* pending QTimer.singleShot(0, ...) tasks, oldest first
    stack,            \* the call stack of the UI thread, innermost frame last
    log,              \* what the engine logger received
    escaped,          \* exceptions that left a slot or a task and reached the event loop
    history,          \* the invocations, starts and ends of wrapped callbacks, in order
    last,             \* the last run of update_engine_context
    builds,           \* number of calls of MenuGenerator.create_menu so far
    events,           \* number of document changes so far
    cmd_registry,     \* engine.commands, in the iteration order of the dict
    fav_setting,      \* the menu_favourites setting
    previous,         \* the menu the last but one build left if it was enabled (else
                      \* <<>>), and whether the last build iterated the registry
                      \* in another order than the registered one
    scene             \* uiInstance.activeProject as the scene operation hook sees it,
                      \* and the last call of the hook

vars == <<current_engine, has_ui, automatic_context_switch, context, menu_generator,
          connected, menus, widget_deleted, scene_path, timers, stack, log, escaped,
          history, last, builds, events, cmd_registry, fav_setting, previous, scene>>

----------------------------------------------------------------------------
(* Bounds of the model *)

MaxInvocations == 2   \* menu clicks per behaviour
MaxEvents == 3        \* document changes per behaviour
MaxCommands == 3      \* registered commands of a menu build
MaxFavourites == 2    \* entries of the menu_favourites setting of a menu build
MaxPromoted == 3      \* entries of the menu_favourites setting, when their order is checked

----------------------------------------------------------------------------
(* A local variable: v is evaluated once and the rest, F, reads its value *)

Bind(v, F(_)) == CHOOSE r \in {F(b) : b \in {v}} : TRUE

----------------------------------------------------------------------------
(* Strings *)

\* the characters the model uses, in code point order
Alphabet == <<"/", "A", "B", "L", "Other Items", "P", "S", "X", "Y", "p", "q">>

Ord(c) == CHOOSE i \in 1..Len(Alphabet) : Alphabet[i] = c

\* Python's str.__lt__
RECURSIVE StrLess(_, _)
StrLess(s, t) ==
    IF t = <<>> THEN FALSE
    ELSE IF s = <<>> THEN TRUE
    ELSE IF Head(s) = Head(t) THEN StrLess(Tail(s), Tail(t))
    ELSE Ord(Head(s)) < Ord(Head(t))

\* str.split("/"): the segments between the slashes, empty ones included
RECURSIVE SplitFrom(_, _, _)
SplitFrom(s, i, cur) ==
    IF i > Len(s) THEN <<cur>>
    ELSE IF s[i] = "/" THEN <<cur>> \o SplitFrom(s, i + 1, <<>>)
    ELSE SplitFrom(s, i + 1, Append(cur, s[i]))

Split(s) == SplitFrom(s, 1, <<>>)

----------------------------------------------------------------------------
(* The menu: QMenu objects, each a title and its list of actions.  Menu 1 *)
(* is MenuGenerator._fptr_menu; an action of kind "menu" is the           *)
(* menuAction() of another QMenu.                                         *)

LONG_MENU_NAME == <<"Flow Production Tracking">>
ROOT == 1

EmptyMenu == <<[title |-> LONG_MENU_NAME, actions |-> <<>>]>>

\* QMenu.clear() on the root: no action is left, so no sub-menu is reachable
Clear(ms) == <<[title |-> ms[ROOT].title, actions |-> <<>>]>>

add_divider(ms, parent_menu) ==
    [ms EXCEPT ![parent_menu].actions = Append(@, [kind |-> "separator"])]

\* returns the menus and the new sub-menu
add_sub_menu(ms, menu_name, parent_menu) ==
    [menus |-> Append([ms EXCEPT ![parent_menu].actions =
                            Append(@, [kind |-> "menu", menu |-> Len(ms) + 1])],
                      [title |-> menu_name, actions |-> <<>>]),
     menu |-> Len(ms) + 1]

Has(properties, key) == key \in DOMAIN properties

\* the QAction once add_menu_item is through with it
NewAction(name, callback, properties) ==
    [kind |-> "action", text |-> name, callback |-> callback,
     enabled |-> IF Has(properties, "enable_callback")
                 THEN properties["enable_callback"] = "true" ELSE TRUE,
     checkable |-> Has(properties, "checkable"),
     checked |-> Has(properties, "checkable") /\ properties["checkable"]]

\* QAction has setToolTip and setStatusTip, no setTooltip: line 276 raises
\* AttributeError; an enable_callback may raise as well
ItemRaises(properties) ==
    \/ Has(properties, "tooltip")
    \/ Has(properties, "enable_callback") /\ properties["enable_callback"] = "raises"

\* the action is added to the menu before its properties are applied
add_menu_item(ms, name, parent_menu, callback, properties) ==
    IF ItemRaises(properties)
    THEN [menus |-> [ms EXCEPT ![parent_menu].actions =
                        Append(@, NewAction(name, callback, [type |-> "default"]))],
          raised |-> TRUE]
    ELSE [menus |-> [ms EXCEPT ![parent_menu].actions =
                        Append(@, NewAction(name, callback, properties))],
          raised |-> FALSE]

----------------------------------------------------------------------------
(* AppCommand: one entry of engine.commands.  A command is a record       *)
(* [name, callback, properties]; properties is a function whose domain is *)
(* the set of keys the properties dict holds.                             *)

\* engine.apps: app instance name -> app object (an app object is its display name)
engine_apps == [p |-> <<"P">>, q |-> <<"A">>]

\* Python's None, where a string is expected: a token no string of the model holds
NoneValue == <<"<None>">>

get_app_name(cmd) ==
    IF Has(cmd.properties, "app") THEN cmd.properties["app"] ELSE NoneValue

get_app_instance_name(cmd) ==
    IF ~Has(cmd.properties, "app") THEN NoneValue
    ELSE IF \E n \in DOMAIN engine_apps : engine_apps[n] = cmd.properties["app"]
         THEN <<CHOOSE n \in DOMAIN engine_apps : engine_apps[n] = cmd.properties["app"]>>
         ELSE NoneValue

get_type(cmd) ==
    IF Has(cmd.properties, "type") THEN cmd.properties["type"] ELSE "default"

\* a search that never finds a sub-menu
find_sub_menu_item_none(ms, menu, label) == 0

\* _find_sub_menu_item: the menu itself when its title is the label, else the
\* first sub-menu with that title in a depth-first walk of the actions; 0 is None
RECURSIVE find_sub_menu_item(_, _, _), find_in_actions(_, _, _, _)
find_sub_menu_item(ms, menu, label) ==
    IF ms[menu].title = label THEN menu
    ELSE find_in_actions(ms, ms[menu].actions, 1, label)

find_in_actions(ms, actions, i, label) ==
    IF i > Len(actions) THEN 0
    ELSE IF actions[i].kind # "menu" THEN find_in_actions(ms, actions, i + 1, label)
    ELSE IF ms[actions[i].menu].title = label THEN actions[i].menu
    ELSE Bind(find_sub_menu_item(ms, actions[i].menu, label), LAMBDA found :
             IF found # 0 THEN found
             ELSE find_in_actions(ms, actions, i + 1, label))

\* the loop of add_command_to_menu over parts[:-1], then add_menu_item
RECURSIVE add_parts(_, _, _, _)
add_parts(ms, parent_menu, parts, cmd) ==
    IF Len(parts) = 1
    THEN add_menu_item(ms, parts[1], parent_menu, cmd.callback, cmd.properties)
    ELSE Bind(find_sub_menu_item(ms, parent_menu, Head(parts)), LAMBDA sub_menu :
             IF sub_menu # 0
             THEN add_parts(ms, sub_menu, Tail(parts), cmd)
             ELSE Bind(add_sub_menu(ms, Head(parts), parent_menu), LAMBDA made :
                      add_parts(made.menus, made.menu, Tail(parts), cmd)))

add_command_to_menu(ms, cmd, menu) ==
    Bind(Split(cmd.name), LAMBDA parts : add_parts(ms, menu, parts, cmd))

\* list.sort(key=lambda x: x.name): stable, ascending
RECURSIVE InsertByName(_, _)
InsertByName(sorted, cmd) ==
    IF sorted = <<>> THEN <<cmd>>
    ELSE IF StrLess(cmd.name, Head(sorted).name) THEN <<cmd>> \o sorted
    ELSE <<Head(sorted)>> \o InsertByName(Tail(sorted), cmd)

RECURSIVE SortByName(_)
SortByName(cmds) ==
    IF cmds = <<>> THEN <<>>
    ELSE Bind(SortByName(SubSeq(cmds, 1, Len(cmds) - 1)), LAMBDA sorted :
             InsertByName(sorted, cmds[Len(cmds)]))

----------------------------------------------------------------------------
(* MenuGenerator.create_menu.  A build state is [menus, favourite, groups, *)
(* raised]: favourite holds the names of the AppCommand objects whose      *)
(* favourite flag is set, groups is commands_by_app, and raised tells that *)
(* an exception left the build at that point (the later steps are skipped). *)

\* the engine contexts; str(ctx) is the title of the context sub-menu
CtxName(ctx) == <<ctx>>
CtxHasLocations(ctx) == ctx # "ctxC"

\* _add_context_menu: returns the build state and the context sub-menu
add_context_menu(st, ctx) ==
    Bind(add_sub_menu(st.menus, CtxName(ctx), ROOT), LAMBDA made :
    Bind(add_divider(made.menus, made.menu), LAMBDA m1 :
    Bind(add_menu_item(m1, <<"Jump to Flow Production Tracking">>, made.menu,
                       "_jump_to_sg", <<>>).menus, LAMBDA m2 :
    Bind(IF CtxHasLocations(ctx)
         THEN add_menu_item(m2, <<"Jump to File System">>, made.menu,
                            "_jump_to_fs", <<>>).menus
         ELSE m2, LAMBDA m3 :
        [st |-> [st EXCEPT !.menus = add_divider(m3, made.menu)],
         menu |-> made.menu]))))

\* a favourite that matches a command by the last segment of its name
FavMatches_leaf(cmd, fav) ==
    /\ get_app_instance_name(cmd) = fav.app_instance
    /\ Split(cmd.name)[Len(Split(cmd.name))] = fav.name

\* lines 188-191
FavMatches(cmd, fav) ==
    /\ get_app_instance_name(cmd) = fav.app_instance
    /\ cmd.name = fav.name

\* lines 187-193: one favourite against every menu item, in menu_items order
RECURSIVE add_favourite(_, _, _, _)
add_favourite(st, fav, menu_items, i) ==
    IF st.raised \/ i > Len(menu_items) THEN st
    ELSE IF FavMatches(menu_items[i], fav)
         THEN Bind(add_command_to_menu(st.menus, menu_items[i], ROOT), LAMBDA r :
                  IF r.raised THEN [st EXCEPT !.menus = r.menus, !.raised = TRUE]
                  ELSE Bind([st EXCEPT !.menus = r.menus,
                                       !.favourite = @ \cup {menu_items[i].name}],
                            LAMBDA st1 : add_favourite(st1, fav, menu_items, i + 1)))
         ELSE add_favourite(st, fav, menu_items, i + 1)

\* the two loops of lines 182-193 the other way round: every menu item against
\* every favourite, so that the favourites come in name order
RECURSIVE add_matching(_, _, _, _)
add_matching(st, cmd, favourites, k) ==
    IF st.raised \/ k > Len(favourites) THEN st
    ELSE IF FavMatches(cmd, favourites[k])
         THEN Bind(add_command_to_menu(st.menus, cmd, ROOT), LAMBDA r :
              Bind([st EXCEPT !.menus = r.menus, !.raised = r.raised,
                              !.favourite = @ \cup {cmd.name}], LAMBDA st1 :
                  add_matching(st1, cmd, favourites, k + 1)))
         ELSE add_matching(st, cmd, favourites, k + 1)

RECURSIVE add_favourites_by_item(_, _, _, _)
add_favourites_by_item(st, favourites, menu_items, i) ==
    IF st.raised \/ i > Len(menu_items) THEN st
    ELSE Bind(add_matching(st, menu_items[i], favourites, 1), LAMBDA st1 :
             add_favourites_by_item(st1, favourites, menu_items, i + 1))

\* lines 182-193
RECURSIVE add_favourites(_, _, _, _)
add_favourites(st, favourites, menu_items, i) ==
    IF st.raised \/ i > Len(favourites) THEN st
    ELSE Bind(add_favourite(st, favourites[i], menu_items, 1), LAMBDA st1 :
             add_favourites(st1, favourites, menu_items, i + 1))

\* commands collected by the first segment of their name
AppNameOf_first_segment(cmd) ==
    IF Len(Split(cmd.name)) > 1 THEN Split(cmd.name)[1] ELSE <<"Other Items">>

\* lines 209-212: the name of the app, or "Other Items"
AppNameOf(cmd) ==
    IF get_app_name(cmd) = NoneValue THEN <<"Other Items">> ELSE get_app_name(cmd)

\* lines 200-215: context menu commands go to the context sub-menu at once, the
\* others are collected by app name
RECURSIVE separate(_, _, _, _)
separate(st, menu_items, context_menu, i) ==
    IF st.raised \/ i > Len(menu_items) THEN st
    ELSE Bind(menu_items[i], LAMBDA cmd :
             IF get_type(cmd) = "context_menu"
             THEN Bind(add_command_to_menu(st.menus, cmd, context_menu), LAMBDA r :
                  Bind([st EXCEPT !.menus = r.menus, !.raised = r.raised], LAMBDA st1 :
                      separate(st1, menu_items, context_menu, i + 1)))
             ELSE Bind(AppNameOf(cmd), LAMBDA app_name :
                  Bind(IF app_name \in DOMAIN st.groups
                       THEN st.groups[app_name] ELSE <<>>, LAMBDA old :
                  Bind([st EXCEPT !.groups =
                            [a \in DOMAIN st.groups \cup {app_name} |->
                                IF a = app_name THEN Append(old, cmd)
                                ELSE st.groups[a]]], LAMBDA st1 :
                      separate(st1, menu_items, context_menu, i + 1)))))

\* the app names from the last to the first
RECURSIVE SortedNames_descending(_)
SortedNames_descending(names) ==
    IF names = {} THEN <<>>
    ELSE Bind(CHOOSE n \in names : \A o \in names \ {n} : StrLess(o, n),
              LAMBDA greatest : <<greatest>> \o SortedNames_descending(names \ {greatest}))

\* sorted(commands_by_app.keys())
RECURSIVE SortedNames(_)
SortedNames(names) ==
    IF names = {} THEN <<>>
    ELSE Bind(CHOOSE n \in names : \A o \in names \ {n} : StrLess(n, o),
              LAMBDA least : <<least>> \o SortedNames(names \ {least}))

\* lines 332-333
RECURSIVE add_commands(_, _, _, _)
add_commands(st, cmds, menu, i) ==
    IF st.raised \/ i > Len(cmds) THEN st
    ELSE Bind(add_command_to_menu(st.menus, cmds[i], menu), LAMBDA r :
         Bind([st EXCEPT !.menus = r.menus, !.raised = r.raised], LAMBDA st1 :
             add_commands(st1, cmds, menu, i + 1)))

\* the commands of an app sub-menu without those already promoted
GroupCommands_without_favourites(st, app_name) ==
    SelectSeq(SortByName(st.groups[app_name]), LAMBDA c : c.name \notin st.favourite)

\* lines 328-331: the commands of the app, sorted by name
GroupCommands(st, app_name) == SortByName(st.groups[app_name])

\* line 338: cmd_obj.favourite
SkipsFavourite(st, cmd_obj) == cmd_obj.name \in st.favourite

\* the body of the loop of _add_app_menu for one app
add_one_app(st, app_name) ==
    IF Len(st.groups[app_name]) > 1
    THEN Bind(add_sub_menu(st.menus, app_name, ROOT), LAMBDA made :
         Bind([st EXCEPT !.menus = made.menus], LAMBDA st1 :
         Bind(GroupCommands(st, app_name), LAMBDA cmds :
             add_commands(st1, cmds, made.menu, 1))))
    ELSE Bind(st.groups[app_name][1], LAMBDA cmd_obj :
             IF ~SkipsFavourite(st, cmd_obj)
             THEN add_commands(st, <<cmd_obj>>, ROOT, 1)
             ELSE st)

RECURSIVE add_apps(_, _, _)
add_apps(st, app_names, i) ==
    IF st.raised \/ i > Len(app_names) THEN st
    ELSE Bind(add_one_app(st, app_names[i]), LAMBDA st1 :
             add_apps(st1, app_names, i + 1))

\* _add_app_menu
add_app_menu(st) ==
    Bind(SortedNames(DOMAIN st.groups), LAMBDA app_names :
    Bind(add_apps(st, app_names, 1), LAMBDA done :
        IF done.raised THEN done
        ELSE [done EXCEPT !.menus = add_divider(@, ROOT)]))

\* the commands left in the iteration order of the dict
SortedItems_unsorted(commands) == commands

\* line 179
SortedItems(commands) == SortByName(commands)

\* the menu not cleared before a build
ClearedMenu_keeps(ms) == ms

\* a clear that removes the items and the dividers and leaves the sub-menus
ClearedMenu_keeps_submenus(ms) ==
    [ms EXCEPT ![ROOT].actions = SelectSeq(@, LAMBDA a : a.kind = "menu")]

\* line 163
ClearedMenu(ms) == Clear(ms)

\* create_menu(disabled): commands is engine.commands in its iteration order,
\* favourites the menu_favourites setting; the result is [menus, raised]
create_menu(ms, disabled, ctx, commands, favourites) ==
    Bind(ClearedMenu(ms), LAMBDA cleared :
        IF disabled
        THEN [menus |-> add_sub_menu(cleared, <<"Sgtk is disabled.">>, ROOT).menus,
              raised |-> FALSE]
        ELSE Bind([menus |-> cleared, favourite |-> {}, groups |-> <<>>,
                   raised |-> FALSE], LAMBDA st0 :
             Bind(add_context_menu(st0, ctx), LAMBDA c :
             Bind([c.st EXCEPT !.menus = add_divider(@, ROOT)], LAMBDA st1 :
             Bind(SortedItems(commands), LAMBDA menu_items :
             Bind(add_favourites(st1, favourites, menu_items, 1), LAMBDA st2 :
             Bind(IF st2.raised THEN st2
                  ELSE [st2 EXCEPT !.menus = add_divider(@, ROOT)], LAMBDA st3 :
             Bind(separate(st3, menu_items, c.menu, 1), LAMBDA st4 :
             Bind(IF st4.raised THEN st4 ELSE add_app_menu(st4), LAMBDA st5 :
                 [menus |-> st5.menus, raised |-> st5.raised])))))))))

----------------------------------------------------------------------------
(* The engine.  Every operation below maps a state record (one field per  *)
(* variable) to the state it leaves, so that handlers compose the way the  *)
(* calls in the source do.                                                  *)

Cmd(name, callback, properties) ==
    [name |-> name, callback |-> callback, properties |-> properties]

\* engine.commands of the apps loaded in a context, in dict iteration order.
\* The callbacks: "load" opens another document (scene_operation.py:99),
\* "pump" shows a modal dialog (scene_operation.py:112), "raise" raises,
\* "destroy" destroys the engine, "ok" returns at once.
engine_commands(ctx) ==
    IF ctx = "ctxA"
    THEN << Cmd(<<"S">>, "raise", <<>>),
            Cmd(<<"A", "/", "P">>, "pump", [app |-> <<"P">>]),
            Cmd(<<"A", "/", "L">>, "load", [app |-> <<"P">>]),
            Cmd(<<"X">>, "destroy", [app |-> <<"A">>]) >>
    ELSE IF ctx = "ctxB"
    THEN << Cmd(<<"X">>, "ok", [app |-> <<"P">>, type |-> "context_menu"]),
            Cmd(<<"S">>, "pump", [checkable |-> TRUE]) >>
    ELSE << Cmd(<<"B">>, "ok", [tooltip |-> <<"B">>]) >>

\* the menu_favourites setting
menu_favourites ==
    << [app_instance |-> <<"p">>, name |-> <<"A", "/", "L">>],
       [app_instance |-> <<"q">>, name |-> <<"Y">>] >>

\* os.path.abspath: a relative path is joined to the working directory "/"
abspath(path) == IF path = "a" THEN "/a" ELSE path

\* sgtk.sgtk_from_path raises TankError for a path outside every project
HasToolkit(path) == path \in {"/a", "/b", "/c", "/n"}

\* a context that is None
NoContext == "None"

\* tk.context_from_path(path, current_ctx); NoContext is a falsy result
context_from_path(path, current_ctx) ==
    CASE path = "/a" -> "ctxA"
      [] path = "/b" -> "ctxB"
      [] path = "/c" -> "ctxC"
      [] OTHER -> NoContext

Paths == {"", "a", "/a", "/b", "/c", "/n", "/x"}

State ==
    [current_engine |-> current_engine, has_ui |-> has_ui,
     automatic_context_switch |-> automatic_context_switch, context |-> context,
     menu_generator |-> menu_generator, connected |-> connected, menus |-> menus,
     widget_deleted |-> widget_deleted, scene_path |-> scene_path,
     timers |-> timers, stack |-> stack, log |-> log, escaped |-> escaped,
     history |-> history, last |-> last, builds |-> builds, events |-> events,
     commands |-> cmd_registry, favourites |-> fav_setting, previous |-> previous,
     scene |-> scene]

Becomes(after) ==
    \E s \in {after} :
    /\ current_engine' = s.current_engine
    /\ has_ui' = s.has_ui
    /\ automatic_context_switch' = s.automatic_context_switch
    /\ context' = s.context
    /\ menu_generator' = s.menu_generator
    /\ connected' = s.connected
    /\ menus' = s.menus
    /\ widget_deleted' = s.widget_deleted
    /\ scene_path' = s.scene_path
    /\ timers' = s.timers
    /\ stack' = s.stack
    /\ log' = s.log
    /\ escaped' = s.escaped
    /\ history' = s.history
    /\ last' = s.last
    /\ builds' = s.builds
    /\ events' = s.events
    /\ cmd_registry' = s.commands
    /\ fav_setting' = s.favourites
    /\ previous' = s.previous
    /\ scene' = s.scene

\* engine.create_shotgun_menu(disabled): [s, raised]
create_shotgun_menu(s, disabled) ==
    IF s.has_ui /\ s.menu_generator
    THEN Bind(create_menu(s.menus, disabled, s.context, s.commands, s.favourites),
              LAMBDA r : [s |-> [s EXCEPT !.menus = r.menus, !.builds = @ + 1],
                          raised |-> r.raised])
    ELSE [s |-> s, raised |-> FALSE]

\* whether post_context_change rebuilds the menu (lines 276 and 287)
RebuildsOnChange(s, old_context, new_context) ==
    s.automatic_context_switch /\ old_context # new_context

\* engine.post_context_change(old_context, new_context): [s, raised]
post_context_change(s, old_context, new_context) ==
    IF RebuildsOnChange(s, old_context, new_context)
    THEN create_shotgun_menu(s, FALSE)
    ELSE [s |-> s, raised |-> FALSE]

\* tank's Engine.change_context, called at line 112: it raises TankError and
\* leaves the engine as it was when the toolkit refuses the switch (ok is
\* FALSE); else it sets the context, reloads the apps and calls
\* post_context_change.  raised is "none", "TankError" or "Exception".
change_context(s, new_ctx, ok) ==
    IF ~ok THEN [s |-> s, raised |-> "TankError"]
    ELSE Bind([s EXCEPT !.context = new_ctx, !.commands = engine_commands(new_ctx)],
              LAMBDA s1 :
         Bind(post_context_change(s1, s.context, new_ctx), LAMBDA r :
             [s |-> r.s, raised |-> IF r.raised THEN "Exception" ELSE "none"]))

\* the menu create_menu(disabled=True) leaves
IsDisabledMenu(ms) ==
    /\ Len(ms) = 2
    /\ ms[ROOT].actions = <<[kind |-> "menu", menu |-> 2]>>
    /\ ms[2] = [title |-> <<"Sgtk is disabled.">>, actions |-> <<>>]

\* what one run of update_engine_context did: n counts the runs, repeat tells
\* that the run before resolved the same path against the same context, before
\* is the resolution of that run, and was_disabled tells that the run found the
\* disabled menu
Resolutions == {"NoChange", "Failed", "Ambiguous", "Resolved"}

Run(s, resolution, switch, new_ctx, logged, raised) ==
    [n |-> s.last.n + 1, path |-> s.scene_path, current |-> s.context,
     resolution |-> resolution, switch |-> switch, new_ctx |-> new_ctx,
     logged |-> logged, raised |-> raised,
     repeat |-> /\ s.last.resolution \in Resolutions
                /\ s.last.path = s.scene_path
                /\ s.last.current = s.context,
     before |-> s.last.resolution, was_disabled |-> IsDisabledMenu(s.menus)]

NoRun ==
    [n |-> 0, path |-> "", current |-> "ctxA", resolution |-> "none",
     switch |-> "none", new_ctx |-> NoContext, logged |-> "none", raised |-> FALSE,
     repeat |-> FALSE, before |-> "none", was_disabled |-> FALSE]

\* a failed resolution that disables the menu
keep_current_disables(s, resolution, new_ctx, logged) ==
    Bind(IF resolution = "Failed" THEN create_shotgun_menu(s, TRUE)
         ELSE [s |-> s, raised |-> FALSE], LAMBDA d :
        [s |-> [d.s EXCEPT !.last = Run(s, resolution, "none", new_ctx, logged, d.raised)],
         raised |-> d.raised])

\* an unchanged context that rebuilds the menu all the same
keep_current_rebuilds(s, resolution, new_ctx, logged) ==
    Bind(IF resolution = "NoChange" THEN create_shotgun_menu(s, FALSE)
         ELSE [s |-> s, raised |-> FALSE], LAMBDA d :
        [s |-> [d.s EXCEPT !.last = Run(s, resolution, "none", new_ctx, logged, d.raised)],
         raised |-> d.raised])

\* the returns that keep the current context (lines 64, 68, 75, 95 and 107, and
\* line 110 when the contexts are equal): [s, raised]
keep_current(s, resolution, new_ctx, logged) ==
    [s |-> [s EXCEPT !.last = Run(s, resolution, "none", new_ctx, logged, FALSE)],
     raised |-> FALSE]

\* the context changed whether it differs or not
ContextDiffers_always(new_ctx, current_ctx) == TRUE

\* line 110: only change if the context is different
ContextDiffers(new_ctx, current_ctx) == new_ctx # current_ctx

\* lines 114-120: the switch was refused
switch_refused(s) == create_shotgun_menu(s, TRUE)

\* update_engine_context(): [s, raised]
update_engine_context(s, ok) ==
    IF ~s.current_engine THEN keep_current(s, "NoEngine", NoContext, "none")
    ELSE IF ~s.has_ui THEN keep_current(s, "NoUi", NoContext, "none")
    ELSE IF s.scene_path = "" THEN keep_current(s, "NoChange", NoContext, "info")
    ELSE LET path == abspath(s.scene_path)
             current_ctx == s.context
             new_ctx == context_from_path(path, current_ctx)
         IN  IF ~HasToolkit(path) THEN keep_current(s, "Failed", NoContext, "error")
             ELSE IF new_ctx = NoContext
             THEN keep_current(s, "Ambiguous", NoContext, "warning")
             ELSE IF ~ContextDiffers(new_ctx, current_ctx)
             THEN keep_current(s, "NoChange", new_ctx, "none")
             ELSE Bind(change_context(s, new_ctx, ok), LAMBDA r :
                      CASE r.raised = "none" ->
                             [s |-> [r.s EXCEPT !.last =
                                        Run(s, "Resolved", "ok", new_ctx, "info", FALSE)],
                              raised |-> FALSE]
                        [] r.raised = "TankError" ->
                             Bind(switch_refused(r.s), LAMBDA d :
                                 [s |-> [d.s EXCEPT !.last =
                                            Run(s, "Resolved", "failed", new_ctx,
                                                "error", d.raised)],
                                  raised |-> d.raised])
                        [] OTHER ->
                             [s |-> [r.s EXCEPT !.last =
                                        Run(s, "Resolved", "raised", new_ctx, "none", TRUE)],
                              raised |-> TRUE])

\* graphChanged.emit(): Qt calls the connected slot; an exception that leaves a
\* slot is reported by the binding and does not reach the emitter
emit_graphChanged(s, ok) ==
    IF s.connected = 0 THEN s
    ELSE Bind(update_engine_context(s, ok), LAMBDA r :
             IF r.raised
             THEN [r.s EXCEPT !.escaped = @ \cup {[src |-> "update_engine_context", id |-> 0]}]
             ELSE r.s)

----------------------------------------------------------------------------
(* Tear-down *)

\* a destroy that drops the single-shot timers still pending
menu_generator_destroy_cancels(s) ==
    IF ~s.menu_generator THEN [s |-> s, raised |-> TRUE]
    ELSE [s |-> [s EXCEPT !.widget_deleted = TRUE, !.timers = <<>>], raised |-> FALSE]

\* MenuGenerator.destroy, reached through engine._menu_generator (line 305):
\* [s, raised]; without a menu generator the attribute access raises
menu_generator_destroy(s) ==
    IF ~s.menu_generator THEN [s |-> s, raised |-> TRUE]
    ELSE [s |-> [s EXCEPT !.widget_deleted = TRUE], raised |-> FALSE]

\* engine.destroy_engine(): [s, raised]
destroy_engine(s) ==
    menu_generator_destroy(
        IF s.has_ui
        THEN [s EXCEPT !.connected = IF @ > 0 THEN @ - 1 ELSE 0]
        ELSE s)

\* tank's Engine.destroy: destroy_engine(), then the current engine is unset
engine_destroy(s) ==
    Bind(destroy_engine(s), LAMBDA r :
        IF r.raised THEN r
        ELSE [s |-> [r.s EXCEPT !.current_engine = FALSE], raised |-> FALSE])

----------------------------------------------------------------------------
(* The deferred dispatcher: class Callback *)

Event(ev, id, note) == [ev |-> ev, id |-> id, note |-> note]

InClickHandler(s) == \E k \in 1..Len(s.stack) : s.stack[k].kind = "click"

\* the callbacks a menu item is connected to
BuiltIns == {"_jump_to_sg", "_jump_to_fs"}

\* the except clause of _execute_within_exception_trap (lines 410-414): the
\* logger is reached through the current engine, which may be None
exception_trap(s, id) ==
    IF s.current_engine
    THEN [s EXCEPT !.log = @ \cup {id},
                   !.history = Append(@, Event("end", id, "logged"))]
    ELSE [s EXCEPT !.escaped = @ \cup {[src |-> "task", id |-> id]},
                   !.history = Append(@, Event("end", id, "escaped"))]

Returned(s, id) == [s EXCEPT !.history = Append(@, Event("end", id, "returned"))]

\* Callback._execute_within_exception_trap for the invocation id of callback:
\* c is what the surroundings decide ([path, ok, raises]).  A callback that
\* runs a nested event loop stays on the stack until the loop ends.
execute_within_exception_trap(s, id, callback, c) ==
    Bind([s EXCEPT !.history =
             Append(@, Event("start", id,
                             IF InClickHandler(s) THEN "in_click" ELSE "in_loop"))],
         LAMBDA s1 :
        CASE callback = "ok" -> Returned(s1, id)
          [] callback = "raise" -> exception_trap(s1, id)
          [] callback \in BuiltIns ->
                IF c.raises THEN exception_trap(s1, id) ELSE Returned(s1, id)
          [] callback = "load" ->
                Bind(emit_graphChanged([s1 EXCEPT !.scene_path = c.path], c.ok),
                     LAMBDA s2 : Returned(s2, id))
          [] callback = "destroy" ->
                Bind(engine_destroy(s1), LAMBDA r :
                    IF r.raised THEN exception_trap(r.s, id) ELSE Returned(r.s, id))
          [] callback = "pump" ->
                [s1 EXCEPT !.stack = Append(@, [kind |-> "task", id |-> id])])

\* Callback.__call__ with a running callback in place of the timer
Callback_call_inline(s, id, callback) ==
    execute_within_exception_trap(s, id, callback,
                                  [path |-> "/b", ok |-> TRUE, raises |-> FALSE])

\* Callback.__call__ with the newest task put first
Callback_call_lifo(s, id, callback) ==
    [s EXCEPT !.timers = <<[id |-> id, callback |-> callback]>> \o @]

\* Callback.__call__ with a deferral that runs the task a second time
Callback_call_twice(s, id, callback) ==
    [s EXCEPT !.timers = @ \o <<[id |-> id, callback |-> callback],
                                 [id |-> id, callback |-> callback]>>]

\* Callback.__call__: QTimer.singleShot(0, self._execute_within_exception_trap)
Callback_call(s, id, callback) ==
    [s EXCEPT !.timers = Append(@, [id |-> id, callback |-> callback])]

----------------------------------------------------------------------------
(* The scene operation hook of tk-multi-workfiles2: SceneOperation.execute. *)
(* scene is [clean, n, operation, answer, was_clean, calls, returned]:      *)
(* clean is activeProject.undoStack.clean, n counts the calls of the hook,  *)
(* and the other fields tell of its last call: the operation, the answer    *)
(* the user gave if asked, the value of clean it found, the calls it made   *)
(* on the project, and what it returned (Python's True, False and None are  *)
(* written "True", "False" and "None").                                     *)

\* a project without unsaved changes, the hook not yet called
NoOperation ==
    [clean |-> TRUE, n |-> 0, operation |-> "none", answer |-> "none",
     was_clean |-> TRUE, calls |-> <<>>, returned |-> "None"]

Operations == {"current_path", "prepare_new", "open", "save", "save_as", "reset"}

\* the buttons of the question of line 112
Answers == {"Yes", "No", "Cancel"}

\* the folder of the temporary projects, outside every toolkit project
TempPath == "/x"

\* a call on uiInstance.activeProject (or its graph): it leaves a project
\* without unsaved changes; new() leaves it without a path as well
project_call(s, call, file_path) ==
    [s EXCEPT !.scene.clean = TRUE,
              !.scene.calls = Append(@, call),
              !.scene_path = CASE call = "new" -> ""
                               [] call = "saveAsTemp" -> TempPath
                               [] call \in {"load", "saveAs"} -> file_path
                               [] OTHER -> @]

\* lines 126-130
save_before_reset(s) ==
    IF s.scene_path = "" THEN project_call(s, "saveAsTemp", "")
    ELSE project_call(s, "save", "")

\* a reset that saves unless the user cancels
reset_unsaved_saves_on_no(s, res) ==
    IF res = "Cancel" THEN [s |-> s, cancelled |-> TRUE]
    ELSE [s |-> save_before_reset(s), cancelled |-> FALSE]

\* lines 112-130: the project has unsaved changes and the user is asked
reset_unsaved(s, res) ==
    IF res = "Cancel" THEN [s |-> s, cancelled |-> TRUE]
    ELSE IF res = "No" THEN [s |-> s, cancelled |-> FALSE]
    ELSE [s |-> save_before_reset(s), cancelled |-> FALSE]

Returns(s, value) == [s EXCEPT !.scene.returned = value]

\* lines 108-133
scene_reset(s, res) ==
    Bind(IF ~s.scene.clean THEN reset_unsaved(s, res)
         ELSE [s |-> s, cancelled |-> FALSE], LAMBDA r :
        IF r.cancelled THEN Returns(r.s, "False")
        ELSE Returns(project_call(r.s, "new", ""), "True"))

\* execute(operation, file_path, ...): res is the answer of the user if the
\* hook asks, ok whether the toolkit accepts the context switch that loading
\* a document may start
execute(s, operation, file_path, res, ok) ==
    Bind([s EXCEPT !.scene.n = @ + 1, !.scene.operation = operation,
                   !.scene.answer = IF operation = "reset" /\ ~s.scene.clean
                                    THEN res ELSE "none",
                   !.scene.was_clean = s.scene.clean,
                   !.scene.calls = <<>>, !.scene.returned = "None"], LAMBDA s0 :
        CASE operation = "current_path" -> Returns(s0, s0.scene_path)
          [] operation = "prepare_new" -> s0
          [] operation = "open" ->
                emit_graphChanged(project_call(s0, "load", file_path), ok)
          [] operation = "save" -> project_call(s0, "save", "")
          [] operation = "save_as" -> project_call(s0, "saveAs", file_path)
          [] operation = "reset" -> scene_reset(s0, res))

----------------------------------------------------------------------------
(* Start-up *)

\* MeshroomEngine.__init__ in the start-up context
Constructed(ui, auto) ==
    [current_engine |-> TRUE, has_ui |-> ui, automatic_context_switch |-> auto,
     context |-> "ctxA", menu_generator |-> FALSE, connected |-> 0,
     menus |-> EmptyMenu, widget_deleted |-> FALSE, scene_path |-> "",
     timers |-> <<>>, stack |-> <<>>, log |-> {}, escaped |-> {},
     history |-> <<>>, last |-> NoRun, builds |-> 0, events |-> 0,
     commands |-> engine_commands("ctxA"), favourites |-> menu_favourites,
     previous |-> [menus |-> <<>>, shuffled |-> FALSE],
     scene |-> NoOperation]

\* engine.post_app_init()
post_app_init(s) ==
    create_shotgun_menu(
        IF s.has_ui
        THEN [s EXCEPT !.connected = @ + 1, !.menu_generator = TRUE]
        ELSE s, FALSE).s

StartsAs(start) ==
    \E s \in {start} :
    /\ current_engine = s.current_engine
    /\ has_ui = s.has_ui
    /\ automatic_context_switch = s.automatic_context_switch
    /\ context = s.context
    /\ menu_generator = s.menu_generator
    /\ connected = s.connected
    /\ menus = s.menus
    /\ widget_deleted = s.widget_deleted
    /\ scene_path = s.scene_path
    /\ timers = s.timers
    /\ stack = s.stack
    /\ log = s.log
    /\ escaped = s.escaped
    /\ history = s.history
    /\ last = s.last
    /\ builds = s.builds
    /\ events = s.events
    /\ cmd_registry = s.commands
    /\ fav_setting = s.favourites
    /\ previous = s.previous
    /\ scene = s.scene

\* the engine is started with or without a UI, with either value of the setting
Init ==
    \E ui \in BOOLEAN, auto \in BOOLEAN :
        StartsAs(post_app_init(Constructed(ui, auto)))

----------------------------------------------------------------------------
(* The steps of the UI thread *)

\* an event loop is dispatching: the main loop with an empty stack, or the
\* nested loop of the callback whose frame is innermost
LoopRunning == IF Len(stack) = 0 THEN TRUE ELSE stack[Len(stack)].kind = "task"

Invocations == Cardinality({k \in 1..Len(history) : history[k].ev = "invoke"})

\* the callbacks of the enabled items of the menu
Clickable ==
    UNION {{menus[m].actions[k].callback :
                k \in {j \in 1..Len(menus[m].actions) :
                          /\ menus[m].actions[j].kind = "action"
                          /\ menus[m].actions[j].enabled}} :
           m \in 1..Len(menus)}

\* what the surroundings decide while a callback runs: the document a "load"
\* opens and whether the toolkit accepts the switch; whether a built-in fails
ChoicesFor(callback) ==
    IF callback = "load" THEN [path : Paths \ {""}, ok : BOOLEAN, raises : {FALSE}]
    ELSE IF callback \in BuiltIns THEN [path : {""}, ok : {TRUE}, raises : BOOLEAN]
    ELSE [path : {""}, ok : {TRUE}, raises : {FALSE}]

\* the user triggers a menu item: QAction.triggered calls Callback.__call__
\* inside the handler of the click
MenuClick(callback) ==
    /\ LoopRunning
    /\ has_ui /\ menu_generator /\ ~widget_deleted
    /\ Invocations < MaxInvocations
    /\ callback \in Clickable
    /\ LET id == Invocations + 1
           s1 == [State EXCEPT !.stack = Append(@, [kind |-> "click", id |-> id]),
                               !.history = Append(@, Event("invoke", id, callback))]
       IN  Becomes(Callback_call(s1, id, callback))

\* the handler of the click returns to the event loop
ClickReturn ==
    /\ Len(stack) > 0
    /\ stack[Len(stack)].kind = "click"
    /\ stack' = SubSeq(stack, 1, Len(stack) - 1)
    /\ UNCHANGED <<current_engine, has_ui, automatic_context_switch, context,
                   menu_generator, connected, menus, widget_deleted, scene_path,
                   timers, log, escaped, history, last, builds, events, cmd_registry,
                   fav_setting, previous, scene>>

\* the event loop fires the oldest single-shot timer
TimerFire(c) ==
    /\ LoopRunning
    /\ Len(timers) > 0
    /\ c \in ChoicesFor(Head(timers).callback)
    /\ Becomes(execute_within_exception_trap([State EXCEPT !.timers = Tail(@)],
                                             Head(timers).id, Head(timers).callback, c))

\* the nested event loop of the innermost callback ends and the callback returns
NestedLoopReturn ==
    /\ Len(stack) > 0
    /\ stack[Len(stack)].kind = "task"
    /\ Becomes(Returned([State EXCEPT !.stack = SubSeq(@, 1, Len(@) - 1)],
                        stack[Len(stack)].id))

\* the user opens, saves or closes a document: graphChanged is emitted
DocumentChange(path, ok) ==
    /\ LoopRunning
    /\ has_ui
    /\ events < MaxEvents
    /\ Becomes(emit_graphChanged([State EXCEPT !.scene_path = path,
                                               !.events = @ + 1], ok))

\* the host destroys the engine
EngineDestroy ==
    /\ LoopRunning
    /\ current_engine
    /\ \E r \in {engine_destroy(State)} :
           Becomes(IF r.raised
                   THEN [r.s EXCEPT !.escaped = @ \cup {[src |-> "destroy_engine", id |-> 0]}]
                   ELSE r.s)

Click ==
    \E callback \in {"ok", "raise", "load", "destroy", "pump"} \cup BuiltIns :
        MenuClick(callback)

Fire == \E c \in [path : Paths, ok : BOOLEAN, raises : BOOLEAN] : TimerFire(c)

Change == \E path \in Paths, ok \in BOOLEAN : DocumentChange(path, ok)

Next == Click \/ ClickReturn \/ Fire \/ NestedLoopReturn \/ Change \/ EngineDestroy

Spec == Init /\ [][Next]_vars

\* the dispatcher alone: documents change only through the commands
NextDispatch == Click \/ ClickReturn \/ Fire \/ NestedLoopReturn \/ EngineDestroy

SpecDispatch == Init /\ [][NextDispatch]_vars

\* the event loop does not leave a due timer unfired for ever, and a click
\* handler returns
SpecDispatchFair == SpecDispatch /\ WF_vars(Fire) /\ WF_vars(ClickReturn)

\* the context switch alone: no command is invoked
NextController == Change \/ EngineDestroy

SpecController == Init /\ [][NextController]_vars

\* the host sets or unsets meshroom.ui.uiInstance, which has_ui reads at every
\* call (engine.py:174-176)
UiChange ==
    /\ LoopRunning
    /\ has_ui' = ~has_ui
    /\ UNCHANGED <<current_engine, automatic_context_switch, context,
                   menu_generator, connected, menus, widget_deleted, scene_path,
                   timers, stack, log, escaped, history, last, builds, events,
                   cmd_registry, fav_setting, previous, scene>>

\* the life of the engine: document changes, the UI coming and going, tear-down
NextLifecycle == Change \/ EngineDestroy \/ UiChange

SpecLifecycle == Init /\ [][NextLifecycle]_vars

----------------------------------------------------------------------------
(* The scene operations alone: the user edits the project, and the file    *)
(* manager calls the hook.                                                 *)

MaxOperations == 3    \* calls of the scene operation hook per behaviour

\* the user changes the graph: the undo stack is clean no more
SceneEdit ==
    /\ LoopRunning
    /\ has_ui
    /\ scene.clean
    /\ Becomes([State EXCEPT !.scene.clean = FALSE])

\* tk-multi-workfiles2 calls the hook
SceneOperation(operation, file_path, res, ok) ==
    /\ LoopRunning
    /\ has_ui
    /\ scene.n < MaxOperations
    /\ Becomes(execute(State, operation, file_path, res, ok))

NextScene ==
    \/ SceneEdit
    \/ \E operation \in Operations, file_path \in Paths \ {""}, res \in Answers,
          ok \in BOOLEAN : SceneOperation(operation, file_path, res, ok)

SpecScene == Init /\ [][NextScene]_vars

----------------------------------------------------------------------------
(* The menu build alone: the registry and the favourites are drawn from    *)
(* pools, and every build finds the registry in some iteration order.      *)

\* every command has a callback of its own
CommandPool ==
    { Cmd(<<"A", "/", "L">>, "cb_AL", [app |-> <<"P">>]),
      Cmd(<<"A", "/", "P">>, "cb_AP", [app |-> <<"P">>]),
      Cmd(<<"S">>, "cb_S", <<>>),
      Cmd(<<"X">>, "cb_X", [app |-> <<"A">>]),
      Cmd(<<"X", "/", "Y">>, "cb_XY", [app |-> <<"A">>]),
      Cmd(<<"B">>, "cb_B", [app |-> <<"P">>, type |-> "context_menu"]),
      Cmd(<<"L">>, "cb_L", [app |-> <<"A">>, type |-> "context_menu"]) }

FavouritePool ==
    { [app_instance |-> <<"p">>, name |-> <<"A", "/", "L">>],
      [app_instance |-> <<"q">>, name |-> <<"X">>],
      [app_instance |-> <<"q">>, name |-> <<"Y">>] }

\* the sequences of at most n elements of a set
ListsOf(S, n) == UNION {[1..k -> S] : k \in 0..n}

\* the commands of a set as a dict holds them after registration in name order
RECURSIVE Registered(_)
Registered(S) ==
    IF S = {} THEN <<>>
    ELSE Bind(CHOOSE c \in S : \A o \in S \ {c} : StrLess(c.name, o.name),
              LAMBDA least : <<least>> \o Registered(S \ {least}))

\* the orders in which a dict of these commands may be iterated
Orders(cmds) ==
    {f \in [1..Len(cmds) -> {cmds[i] : i \in 1..Len(cmds)}] :
        \A i, j \in 1..Len(cmds) : f[i] = f[j] => i = j}

InitBuild ==
    \E cmds \in {S \in SUBSET CommandPool : Cardinality(S) <= MaxCommands},
       favs \in ListsOf(FavouritePool, MaxFavourites) :
        StartsAs([Constructed(TRUE, TRUE) EXCEPT
                    !.menu_generator = TRUE, !.connected = 1,
                    !.commands = Registered(cmds), !.favourites = favs])

\* engine.create_shotgun_menu(disabled), the registry being iterated in some
\* order; builds counts to two and stays there
Build(order, disabled) ==
    LET s1 == [State EXCEPT !.commands = order,
                            !.previous = [menus |-> IF builds > 0 /\ ~IsDisabledMenu(menus)
                                                    THEN menus ELSE <<>>,
                                          shuffled |-> order # cmd_registry]]
        s2 == create_shotgun_menu(s1, disabled).s
    IN  Becomes([s2 EXCEPT !.commands = cmd_registry,
                           !.builds = IF @ > 2 THEN 2 ELSE @])

NextBuild ==
    \E order \in Orders(cmd_registry), disabled \in BOOLEAN : Build(order, disabled)

SpecBuild == InitBuild /\ [][NextBuild]_vars

----------------------------------------------------------------------------
(* The favourites of a menu build: longer favourites lists over a small   *)
(* registry, iterated in the registered order.                            *)

PromotedCommands ==
    { Cmd(<<"A", "/", "L">>, "cb_AL", [app |-> <<"P">>]),
      Cmd(<<"A", "/", "P">>, "cb_AP", [app |-> <<"P">>]),
      Cmd(<<"X">>, "cb_X", [app |-> <<"A">>]),
      Cmd(<<"S">>, "cb_S", <<>>),
      Cmd(<<>>, "cb_empty", [app |-> <<"A">>]) }

PromotedPool ==
    { [app_instance |-> <<"p">>, name |-> <<"A", "/", "L">>],
      [app_instance |-> <<"p">>, name |-> <<"A", "/", "P">>],
      [app_instance |-> <<"q">>, name |-> <<"X">>],
      [app_instance |-> <<"q">>, name |-> <<"Y">>] }

InitFavourites ==
    \E cmds \in {S \in SUBSET PromotedCommands : Cardinality(S) >= 4},
       favs \in ListsOf(PromotedPool, MaxPromoted) :
        StartsAs([Constructed(TRUE, TRUE) EXCEPT
                    !.menu_generator = TRUE, !.connected = 1,
                    !.commands = Registered(cmds), !.favourites = favs])

NextFavourites == \E disabled \in BOOLEAN : Build(cmd_registry, disabled)

SpecFavourites == InitFavourites /\ [][NextFavourites]_vars

----------------------------------------------------------------------------
(* The placement of a command: a registry whose names share their first    *)
(* segment with a command of the context sub-menu, with a favourite, or    *)
(* with the name of their app, and a favourite that names a command of the *)
(* context sub-menu; iterated in the registered order.                     *)

PlacedCommands ==
    { Cmd(<<"X", "/", "B">>, "cb_XB", [app |-> <<"A">>, type |-> "context_menu"]),
      Cmd(<<"X", "/", "Y">>, "cb_XY", [app |-> <<"P">>]),
      Cmd(<<"A", "/", "L">>, "cb_AL", [app |-> <<"P">>]),
      Cmd(<<"A", "/", "P">>, "cb_AP", [app |-> <<"A">>]),
      Cmd(<<"A", "/", "S">>, "cb_AS", [app |-> <<"A">>]) }

PlacedFavourites ==
    { [app_instance |-> <<"p">>, name |-> <<"A", "/", "L">>],
      [app_instance |-> <<"q">>, name |-> <<"X", "/", "B">>] }

InitPlacement ==
    \E cmds \in {S \in SUBSET PlacedCommands : Cardinality(S) \in 1..MaxCommands},
       favs \in ListsOf(PlacedFavourites, 1) :
        StartsAs([Constructed(TRUE, TRUE) EXCEPT
                    !.menu_generator = TRUE, !.connected = 1,
                    !.commands = Registered(cmds), !.favourites = favs])

NextPlacement == \E disabled \in BOOLEAN : Build(cmd_registry, disabled)

SpecPlacement == InitPlacement /\ [][NextPlacement]_vars

----------------------------------------------------------------------------
(* The app section: commands of two apps and of no app, names without      *)
(* path segments, the registry iterated in some order.                     *)

AppCommands ==
    { Cmd(<<"S">>, "cb_S", <<>>),
      Cmd(<<"L">>, "cb_L", <<>>),
      Cmd(<<"X">>, "cb_X", [app |-> <<"A">>]),
      Cmd(<<"Y">>, "cb_Y", [app |-> <<"A">>]),
      Cmd(<<"B">>, "cb_B", [app |-> <<"P">>]) }

AppFavourites == { [app_instance |-> <<"q">>, name |-> <<"X">>] }

InitApps ==
    \E cmds \in {S \in SUBSET AppCommands : Cardinality(S) \in 1..MaxCommands},
       favs \in ListsOf(AppFavourites, 1) :
        StartsAs([Constructed(TRUE, TRUE) EXCEPT
                    !.menu_generator = TRUE, !.connected = 1,
                    !.commands = Registered(cmds), !.favourites = favs])

SpecApps == InitApps /\ [][NextBuild]_vars

----------------------------------------------------------------------------
(* Properties of the deferred dispatcher, checked under SpecDispatch *)

Positions(ev, id) == {k \in 1..Len(history) : history[k].ev = ev /\ history[k].id = id}

Happened(ev, id) == Positions(ev, id) # {}

\* an event happens at most once per invocation
At(ev, id) == CHOOSE k \in Positions(ev, id) : TRUE

Ids == 1..Invocations

CallbackOf(id) == history[At("invoke", id)].note

\* C1: a wrapped callback never starts while the handler of a menu click is on
\* the call stack: nothing runs inside a click handler, so the callback, and
\* any menu rebuild or tear-down it causes, comes after the handler returned.
C1_NeverInline ==
    /\ \A k \in 1..Len(history) : history[k].ev = "start" => history[k].note = "in_loop"
    /\ \A k \in 1..Len(stack) : stack[k].kind = "click" => k = Len(stack)

\* a command that opened a document has run, and the menu was rebuilt for it
C1_Witness ==
    \E id \in Ids :
        /\ CallbackOf(id) = "load"
        /\ Happened("end", id)
        /\ builds > 1

\* C2 (as claimed): whenever a wrapped callback raises, the exception is caught
\* and logged by the deferred execution and does not reach the event loop.
C2_RaisesAreLogged ==
    \A id \in Ids :
        (CallbackOf(id) = "raise" /\ Happened("end", id)) =>
            /\ history[At("end", id)].note = "logged"
            /\ id \in log
            /\ [src |-> "task", id |-> id] \notin escaped

\* C3 (as claimed): a callback invoked earlier runs to completion before a
\* callback invoked later starts.
C3_NeverInterleaved ==
    \A i, j \in Ids :
        (i < j /\ Happened("start", j)) =>
            /\ Happened("end", i)
            /\ At("end", i) < At("start", j)

\* C3 (amended): callbacks start in the order of their invocations, and a later
\* one starts before an earlier one has ended only inside the nested event
\* loop that the earlier one is running.
C3_FifoStarts ==
    \A i, j \in Ids :
        (i < j /\ Happened("start", j)) =>
            /\ Happened("start", i)
            /\ At("start", i) < At("start", j)
            /\ (Happened("end", i) /\ At("end", i) < At("start", j))
                  \/ CallbackOf(i) = "pump"

\* the second of two callbacks has started inside the nested loop of the first
C3_Witness ==
    /\ Happened("start", 1) /\ Happened("start", 2)
    /\ ~Happened("end", 1)
    /\ Len(stack) > 0

----------------------------------------------------------------------------
(* Properties of the context switch, checked under SpecController *)

\* the outcome the resolution policy gives a path against a current context
Outcome(path, current) ==
    IF path = "" THEN "NoChange"
    ELSE IF ~HasToolkit(abspath(path)) THEN "Failed"
    ELSE IF context_from_path(abspath(path), current) = NoContext THEN "Ambiguous"
    ELSE IF context_from_path(abspath(path), current) = current THEN "NoChange"
    ELSE "Resolved"

\* a document change reached update_engine_context in this step
Handled == last'.n = last.n + 1

C5_Idempotent ==
    /\ last.repeat => last.resolution = last.before
    /\ (last.resolution \in Resolutions /\ last.new_ctx = last.current)
          => last.resolution = "NoChange" /\ last.switch = "none"
    /\ (last.resolution \in Resolutions
           /\ Outcome(last.path, last.current) = "NoChange")
          => last.resolution = "NoChange" /\ last.switch = "none"
    /\ last.switch # "none" => last.new_ctx # last.current

\* the same path was resolved twice against the same context, which it maps to
C5_Witness ==
    /\ last.repeat
    /\ last.resolution = "NoChange"
    /\ last.new_ctx = last.current

\* the menu an enabled build leaves for the engine as it is
BuiltMenu == create_menu(EmptyMenu, FALSE, context, cmd_registry, fav_setting)

\* C6 (as claimed): after a document change that resolved to another context
\* and whose switch succeeded, the engine is in the new context and the menu
\* is the enabled menu of the new context.
C6_SwitchRebuilds ==
    last.switch = "ok" =>
        /\ context = last.new_ctx
        /\ menus = BuiltMenu.menus

\* C7: a refused switch leaves the context as it was, is logged as an error and
\* not raised, and leaves a menu that holds the explanatory entry and nothing
\* else.
C7_RefusedSwitchDisables ==
    last.switch = "failed" =>
        /\ context = last.current
        /\ last.logged = "error"
        /\ ~last.raised
        /\ Len(menus[ROOT].actions) = 1
        /\ menus[ROOT].actions[1].kind = "menu"
        /\ menus[menus[ROOT].actions[1].menu] =
              [title |-> <<"Sgtk is disabled.">>, actions |-> <<>>]
        /\ Len(menus) = 2

\* a switch was refused while the enabled menu was shown
C7_Witness ==
    /\ last.switch = "failed"
    /\ ~last.was_disabled
    /\ IsDisabledMenu(menus)

\* a path that resolves to a valid context
WorkingPath(path, current) ==
    /\ path # ""
    /\ HasToolkit(abspath(path))
    /\ context_from_path(abspath(path), current) # NoContext

\* C8 (as claimed): with the menu disabled by a refused switch, a document
\* change that carries a working path, and whose switch is not refused, leaves
\* the enabled menu fully built.
C8_WorkingPathRecovers ==
    [][(/\ IsDisabledMenu(menus)
        /\ Handled
        /\ WorkingPath(scene_path', context)
        /\ last'.switch \in {"none", "ok"})
         => menus' = create_menu(EmptyMenu, FALSE, context', cmd_registry', fav_setting').menus]_vars

----------------------------------------------------------------------------
(* Properties of the menu build, checked under SpecBuild *)

\* C10: with the same commands and favourites, an enabled build leaves the
\* same menu as the enabled build before it, whatever the order in which the
\* registry was iterated and however many builds came before.
C10_Deterministic ==
    (builds > 1 /\ previous.menus # <<>> /\ ~IsDisabledMenu(menus))
        => menus = previous.menus

\* two enabled builds of at least two commands, the later one iterating the
\* registry in another order than the registered one
C10_Witness ==
    /\ builds > 1
    /\ previous.menus # <<>>
    /\ previous.shuffled
    /\ ~IsDisabledMenu(menus)
    /\ Len(cmd_registry) > 1
    /\ Len(fav_setting) > 0

----------------------------------------------------------------------------
(* Reading the menu tree *)

\* the sub-menus a menu shows, and the texts of its items, in display order
Children(ms, m) ==
    {ms[m].actions[k].menu : k \in {j \in 1..Len(ms[m].actions) :
                                        ms[m].actions[j].kind = "menu"}}

ItemsAt(ms, m) ==
    {k \in 1..Len(ms[m].actions) : ms[m].actions[k].kind = "action"}

\* a sub-menu is created after its parent, so its number is greater
RECURSIVE Within(_, _)
Within(ms, m) == {m} \cup UNION {Within(ms, c) : c \in Children(ms, m)}

GroupsLabelled(ms, top, label) == {m \in Within(ms, top) \ {ROOT} : ms[m].title = label}

\* an enabled build has been made and is on display
EnabledBuilt == builds > 0 /\ ~IsDisabledMenu(menus)

Registry == {cmd_registry[i] : i \in 1..Len(cmd_registry)}

IsDefault(cmd) == get_type(cmd) # "context_menu"

\* two commands named Group/Leaf with the same Group
SharePrefix(c1, c2) ==
    /\ Len(Split(c1.name)) = 2
    /\ Len(Split(c2.name)) = 2
    /\ Split(c1.name)[1] = Split(c2.name)[1]
    /\ StrLess(c1.name, c2.name)

\* the sub-menu the app section made for an app: the last one of that title at the root
AppMenus(app_name) == {m \in Children(menus, ROOT) : menus[m].title = app_name}

AppMenu(app_name) == CHOOSE m \in AppMenus(app_name) : \A o \in AppMenus(app_name) : o <= m

\* menu m shows the leaves of c1 and c2, c1 first
ShowsInOrder(m, c1, c2) ==
    \E i, j \in ItemsAt(menus, m) :
        /\ i < j
        /\ menus[m].actions[i].text = Split(c1.name)[2]
        /\ menus[m].actions[j].text = Split(c2.name)[2]

IsNamedBy(c, f) == get_app_instance_name(c) = f.app_instance /\ c.name = f.name

\* the entries of a favourites list that match a registered command
RECURSIVE MatchedOnly(_)
MatchedOnly(favs) ==
    IF favs = <<>> THEN <<>>
    ELSE (IF \E c \in Registry : IsNamedBy(c, Head(favs)) THEN <<Head(favs)>> ELSE <<>>)
         \o MatchedOnly(Tail(favs))

\* C12: a favourites entry that matches no registered command raises nothing
\* and adds nothing: the build leaves the menu it leaves without that entry.
C12_UnmatchedFavouriteIgnored ==
    EnabledBuilt =>
        /\ ~create_menu(EmptyMenu, FALSE, context, cmd_registry, fav_setting).raised
        /\ menus = create_menu(EmptyMenu, FALSE, context, cmd_registry,
                               MatchedOnly(fav_setting)).menus

\* a build with one favourite that matches and one that names only the leaf of
\* a registered command
C12_Witness ==
    /\ EnabledBuilt
    /\ Len(MatchedOnly(fav_setting)) = 1
    /\ Len(fav_setting) = 2
    /\ \E c \in Registry, k \in 1..Len(fav_setting) :
          /\ ~IsNamedBy(c, fav_setting[k])
          /\ get_app_instance_name(c) = fav_setting[k].app_instance
          /\ Split(c.name)[Len(Split(c.name))] = fav_setting[k].name

----------------------------------------------------------------------------
(* The favourites section, checked under SpecFavourites *)

\* the actions of the root between its first and its second divider
FavSection(ms) ==
    LET acts == ms[ROOT].actions
        second == CHOOSE k \in 3..Len(acts) :
                      /\ acts[k].kind = "separator"
                      /\ \A j \in 3..(k - 1) : acts[j].kind # "separator"
    IN  SubSeq(acts, 3, second - 1)

\* the leaves a list of actions shows from top to bottom, sub-menus opened
RECURSIVE Flatten(_, _)
Flatten(ms, acts) ==
    IF acts = <<>> THEN <<>>
    ELSE (CASE Head(acts).kind = "action" -> <<Head(acts).text>>
            [] Head(acts).kind = "menu" -> Flatten(ms, ms[Head(acts).menu].actions)
            [] OTHER -> <<>>)
         \o Flatten(ms, Tail(acts))

LastPart(name) == Split(name)[Len(Split(name))]

\* the leaves of the matched favourites in the order of the configuration
ConfiguredLeaves == [k \in 1..Len(MatchedOnly(fav_setting)) |->
                        LastPart(MatchedOnly(fav_setting)[k].name)]

\* C13 (as claimed): the favourites section shows the matched favourites in the
\* order of the favourites list.
C13_ConfigurationOrder ==
    EnabledBuilt => Flatten(menus, FavSection(menus)) = ConfiguredLeaves

\* what a favourite puts at the root: itself, or the group of its first segment
TopEntry(f) ==
    IF Len(Split(f.name)) = 1 THEN [kind |-> "leaf", label |-> f.name]
    ELSE [kind |-> "group", label |-> Split(f.name)[1]]

\* the entries at the root in the order of the list, a group standing where
\* the first favourite that needs it stands
RECURSIVE TopLevel(_)
TopLevel(favs) ==
    IF favs = <<>> THEN <<>>
    ELSE LET before == TopLevel(SubSeq(favs, 1, Len(favs) - 1))
             e == TopEntry(favs[Len(favs)])
         IN  IF e.kind = "group" /\ \E k \in 1..Len(before) : before[k] = e
             THEN before ELSE Append(before, e)

SectionTop(ms) ==
    [k \in 1..Len(FavSection(ms)) |->
        IF FavSection(ms)[k].kind = "action"
        THEN [kind |-> "leaf", label |-> FavSection(ms)[k].text]
        ELSE [kind |-> "group", label |-> ms[FavSection(ms)[k].menu].title]]

\* the leaves of the favourites of one group, in the order of the list
RECURSIVE LeavesOf(_, _)
LeavesOf(favs, label) ==
    IF favs = <<>> THEN <<>>
    ELSE (IF TopEntry(Head(favs)) = [kind |-> "group", label |-> label]
          THEN <<LastPart(Head(favs).name)>> ELSE <<>>)
         \o LeavesOf(Tail(favs), label)

\* C13 (amended): the matched favourites are added in the order of the list;
\* one without path segments is a new item at the end of the section, one
\* named Group/Leaf goes to the end of the group of that label, which stands
\* where the first favourite that needed it stands.
C13_OrderWithinGroups ==
    EnabledBuilt =>
        /\ SectionTop(menus) = TopLevel(MatchedOnly(fav_setting))
        /\ \A k \in 1..Len(FavSection(menus)) :
              FavSection(menus)[k].kind = "menu" =>
                  Flatten(menus, menus[FavSection(menus)[k].menu].actions) =
                      LeavesOf(MatchedOnly(fav_setting),
                               menus[FavSection(menus)[k].menu].title)

\* two favourites of one group with another favourite between them
C13_Witness ==
    /\ EnabledBuilt
    /\ Len(MatchedOnly(fav_setting)) = 3
    /\ TopEntry(fav_setting[1]) = TopEntry(fav_setting[3])
    /\ TopEntry(fav_setting[2]).kind = "leaf"
    /\ Len(FavSection(menus)) = 2

----------------------------------------------------------------------------
(* The app section, checked under SpecBuild *)

\* the places (menu, position) where the item of a command stands, among menus
Places(cmd, among) ==
    {p \in UNION {{<<m, k>> : k \in ItemsAt(menus, m)} : m \in among} :
        /\ menus[p[1]].actions[p[2]].text = LastPart(cmd.name)
        /\ menus[p[1]].actions[p[2]].callback = cmd.callback}

Occurrences(cmd) == Cardinality(Places(cmd, 1..Len(menus)))

\* the default commands of the app of a command
GroupOf(cmd) == {c \in Registry : IsDefault(c) /\ AppNameOf(c) = AppNameOf(cmd)}

\* the favourites entries that name a command
NamedBy(cmd) == {k \in 1..Len(fav_setting) : IsNamedBy(cmd, fav_setting[k])}

\* a label that is a group of the name of some registered command
IsPathGroup(label) ==
    \E c \in Registry : \E k \in 1..(Len(Split(c.name)) - 1) : Split(c.name)[k] = label

\* C14 (as claimed): the only default command of its app has no app sub-menu
\* (it stands at the root when its name has no path segment), and stands
\* exactly once in the menu, favourite or not.
C14_SingleOnce ==
    EnabledBuilt =>
        \A c \in Registry :
            (IsDefault(c) /\ GroupOf(c) = {c}) =>
                /\ ~IsPathGroup(AppNameOf(c)) =>
                       GroupsLabelled(menus, ROOT, AppNameOf(c)) = {}
                /\ Len(Split(c.name)) = 1 =>
                       Places(c, 1..Len(menus)) = Places(c, {ROOT})
                /\ Occurrences(c) = 1

\* the places of a command inside the sub-menu of its app
InAppMenu(cmd) == Places(cmd, Within(menus, AppMenu(AppNameOf(cmd))))

\* C15: an app with more than one default command has a sub-menu of its name
\* at the root that holds every one of these commands once, favourites
\* included (a favourite stands in the favourites section as well), and the
\* items of every menu inside it stand in the order of the command names.
C15_GroupHoldsAll ==
    EnabledBuilt =>
        \A c \in Registry :
            (IsDefault(c) /\ Cardinality(GroupOf(c)) > 1) =>
                /\ AppMenus(AppNameOf(c)) # {}
                /\ Cardinality(InAppMenu(c)) = 1
                /\ Occurrences(c) = 1 + Cardinality(NamedBy(c))
                /\ \A d \in GroupOf(c) : \A p \in InAppMenu(c), q \in InAppMenu(d) :
                       (p[1] = q[1] /\ StrLess(c.name, d.name)) => p[2] < q[2]

\* an app with two commands in one group, the earlier one a favourite as well
C15_Witness ==
    /\ EnabledBuilt
    /\ previous.shuffled
    /\ \E c, d \in Registry :
          /\ IsDefault(c) /\ d \in GroupOf(c) /\ SharePrefix(c, d)
          /\ NamedBy(c) # {}
          /\ Cardinality(InAppMenu(c)) = 1
          /\ Occurrences(c) > 1

----------------------------------------------------------------------------
(* Names that are no names, checked under SpecFavourites *)

\* a name without one leading and one trailing slash
Trimmed(name) ==
    LET a == IF name # <<>> /\ Head(name) = "/" THEN Tail(name) ELSE name
    IN  IF a # <<>> /\ a[Len(a)] = "/" THEN SubSeq(a, 1, Len(a) - 1) ELSE a

\* C16 (as claimed): a build from a command whose name is empty once trimmed
\* ends in an error, and the command is not added to the menu.
C16_EmptyNameRejected ==
    EnabledBuilt =>
        \A c \in Registry :
            Trimmed(c.name) = <<>> =>
                /\ create_menu(EmptyMenu, FALSE, context, cmd_registry, fav_setting).raised
                /\ Occurrences(c) = 0

----------------------------------------------------------------------------
(* The shape of the tree, checked under SpecBuild *)

\* the label of the k-th action of a menu: the text of an item, the title of a
\* sub-menu; a divider has none
LabelAt(ms, m, k) ==
    IF ms[m].actions[k].kind = "action" THEN ms[m].actions[k].text
    ELSE ms[ms[m].actions[k].menu].title

Labelled(ms, m) == {k \in 1..Len(ms[m].actions) : ms[m].actions[k].kind # "separator"}

\* C17 (as claimed): after every build no menu shows two children of the same
\* label, and nothing is an item and a sub-menu at once.
C17_UniqueLabels ==
    builds > 0 =>
        \A m \in 1..Len(menus) : \A i, j \in Labelled(menus, m) :
            LabelAt(menus, m, i) = LabelAt(menus, m, j) => i = j

----------------------------------------------------------------------------
(* Builds one after the other, checked under SpecController *)

\* C18: every build leaves the menu that the same build leaves on an empty
\* menu: the disabled menu after a refused switch, else the menu of the
\* context and the commands of the moment; nothing of an earlier build is left.
C18_BuiltFromScratch ==
    [][(Handled /\ builds' # builds)
         => menus' = create_menu(EmptyMenu, last'.switch = "failed", context',
                                 cmd_registry', fav_setting').menus]_vars

\* a third build, of another context, over the disabled menu
C18_Witness ==
    /\ builds >= 3
    /\ last.switch = "ok"
    /\ last.was_disabled
    /\ context # "ctxA"
    /\ ~IsDisabledMenu(menus)

----------------------------------------------------------------------------
(* Tear-down, checked under SpecController and SpecLifecycle *)

\* C19 (as claimed): destroy_engine completes without an error in every state
\* of the engine, with or without a UI.
C19_DestroyCompletes == [src |-> "destroy_engine", id |-> 0] \notin escaped

\* C20 (as claimed): once the engine is destroyed, update_engine_context is
\* connected to graphChanged no more, and no document change reaches it.
C20_Released ==
    /\ ~current_engine => connected = 0
    /\ last.n > 0 => last.resolution # "NoEngine"

----------------------------------------------------------------------------
(* Deferred tasks across tear-down and rebuilds, checked under SpecDispatch *)

Pending(id) == \E k \in 1..Len(timers) : timers[k].id = id

\* C21: a deferred task is never cancelled: from its invocation on it is
\* pending, whatever is destroyed or rebuilt meanwhile, until the event loop
\* fires it, and then its callback starts, once.
C21_NeverCancelled ==
    \A id \in Ids :
        /\ Pending(id) \/ Happened("start", id)
        /\ ~(Pending(id) /\ Happened("start", id))
        /\ Pending(id) =>
              \E k \in 1..Len(timers) : timers[k] = [id |-> id, callback |-> CallbackOf(id)]

\* a command invoked before the command that destroyed the engine started has
\* run after the engine was destroyed
C21_Witness ==
    /\ Invocations = 2
    /\ CallbackOf(1) = "destroy"
    /\ Happened("end", 1) /\ Happened("start", 2)
    /\ At("invoke", 2) < At("start", 1)
    /\ At("end", 1) < At("start", 2)
    /\ ~current_engine /\ widget_deleted

----------------------------------------------------------------------------
(* The documented example, checked under SpecBuild: Apps/Loader and        *)
(* Apps/Publisher of the app Pipeline, Settings of no app, and the         *)
(* favourite (pipeline, Apps/Loader), written A/L, A/P (app P), S and      *)
(* (p, A/L).                                                               *)

Item(label) == [kind |-> "item", label |-> label, children |-> <<>>]
Divider == [kind |-> "divider", label |-> <<>>, children |-> <<>>]
Group(label, children) == [kind |-> "group", label |-> label, children |-> children]

\* what a list of actions shows, sub-menus opened
RECURSIVE Shape(_, _)
Shape(ms, acts) ==
    IF acts = <<>> THEN <<>>
    ELSE <<CASE Head(acts).kind = "action" -> Item(Head(acts).text)
             [] Head(acts).kind = "menu" ->
                    Group(ms[Head(acts).menu].title,
                          Shape(ms, ms[Head(acts).menu].actions))
             [] OTHER -> Divider>>
         \o Shape(ms, Tail(acts))

\* the root below the context sub-menu and its divider
BelowContext(ms) == Shape(ms, SubSeq(ms[ROOT].actions, 3, Len(ms[ROOT].actions)))

ExampleBuilt ==
    /\ EnabledBuilt
    /\ Registry = { Cmd(<<"A", "/", "L">>, "cb_AL", [app |-> <<"P">>]),
                    Cmd(<<"A", "/", "P">>, "cb_AP", [app |-> <<"P">>]),
                    Cmd(<<"S">>, "cb_S", <<>>) }
    /\ fav_setting = <<[app_instance |-> <<"p">>, name |-> <<"A", "/", "L">>]>>

\* C22 (as claimed): the example builds a favourites section with the item L,
\* a divider, the item S, a divider, and a sub-menu A that holds L and P (a
\* divider at the end or none).
C22_ExampleAsDocumented ==
    ExampleBuilt =>
        LET tree == << Item(<<"L">>), Divider, Item(<<"S">>), Divider,
                       Group(<<"A">>, <<Item(<<"L">>), Item(<<"P">>)>>) >>
        IN  BelowContext(menus) \in {tree, Append(tree, Divider)}

\* C22 (amended): the example builds a favourites section with a sub-menu A
\* that holds L, a divider, the item S, a sub-menu P (the app) that holds a
\* sub-menu A with L and P, and a divider at the end.
C22_ExampleAsBuilt ==
    ExampleBuilt =>
        BelowContext(menus) =
            << Group(<<"A">>, <<Item(<<"L">>)>>), Divider, Item(<<"S">>),
               Group(<<"P">>, <<Group(<<"A">>, <<Item(<<"L">>), Item(<<"P">>)>>)>>),
               Divider >>

\* the example was built from a registry iterated in another order
C22_Witness == ExampleBuilt /\ previous.shuffled

----------------------------------------------------------------------------
(* The path to a leaf, checked under SpecPlacement *)

\* the menu that shows sub-menu m
ParentOf(ms, m) == CHOOSE p \in 1..Len(ms) : m \in Children(ms, p)

\* the titles of the sub-menus from the root down to m
RECURSIVE TitlesTo(_, _)
TitlesTo(ms, m) ==
    IF m = ROOT THEN <<>> ELSE Append(TitlesTo(ms, ParentOf(ms, m)), ms[m].title)

\* the segments of a name but the last
GroupsOfName(name) == SubSeq(Split(name), 1, Len(Split(name)) - 1)

\* the action of the root under which menu m stands
TopOf(ms, m) ==
    CHOOSE k \in 1..Len(ms[ROOT].actions) :
        /\ ms[ROOT].actions[k].kind = "menu"
        /\ m \in Within(ms, ms[ROOT].actions[k].menu)

\* the section of the k-th action of the root: 0 the context sub-menu, 1 the
\* favourites, 2 the apps (the dividers before it are counted)
SectionAt(ms, k) ==
    Cardinality({j \in 1..(k - 1) : ms[ROOT].actions[j].kind = "separator"})

SectionOf(ms, p) == SectionAt(ms, IF p[1] = ROOT THEN p[2] ELSE TopOf(ms, p[1]))

\* C23 (as claimed): wherever the item of a command stands, it stands under
\* the chain of groups its name gives, counted from the menu the command was
\* added to: the context sub-menu for a context_menu command, the root in the
\* favourites section for a favourite, the root or the sub-menu of its app in
\* the app section; no group elsewhere in the tree is used in their place.
C23_UnderItsPath ==
    EnabledBuilt =>
        \A c \in Registry : \A p \in Places(c, 1..Len(menus)) :
            \E t \in {TitlesTo(menus, p[1])}, sec \in {SectionOf(menus, p)} :
                \/ /\ ~IsDefault(c)
                   /\ sec = 0
                   /\ t = <<CtxName(context)>> \o GroupsOfName(c.name)
                \/ /\ sec = 1
                   /\ NamedBy(c) # {}
                   /\ t = GroupsOfName(c.name)
                \/ /\ IsDefault(c)
                   /\ sec = 2
                   /\ t = (IF Cardinality(GroupOf(c)) > 1 THEN <<AppNameOf(c)>> ELSE <<>>)
                              \o GroupsOfName(c.name)

----------------------------------------------------------------------------
(* Routing by type, checked under SpecPlacement *)

\* C24 (as claimed): a context_menu command stands in the context sub-menu
\* and nowhere else, a default command stands in the main tree (the
\* favourites and the app section) only, whatever the favourites name.
C24_RoutedByType ==
    EnabledBuilt =>
        \A c \in Registry :
            /\ ~IsDefault(c) => Places(c, 1..Len(menus)) # {}
            /\ \A p \in Places(c, 1..Len(menus)) :
                  IF IsDefault(c) THEN SectionOf(menus, p) \in {1, 2}
                  ELSE SectionOf(menus, p) = 0

----------------------------------------------------------------------------
(* The order and the size of the app groups, checked under SpecApps *)

\* the actions of the app section of the root, in display order
AppSection(ms) ==
    SelectSeq([k \in 1..Len(ms[ROOT].actions) |->
                  [at |-> k, action |-> ms[ROOT].actions[k]]],
              LAMBDA e : e.action.kind # "separator" /\ SectionAt(ms, e.at) = 2)

\* the callbacks of the items a list of actions shows, sub-menus opened
RECURSIVE Callbacks(_, _)
Callbacks(ms, acts) ==
    IF acts = <<>> THEN <<>>
    ELSE (CASE Head(acts).kind = "action" -> <<Head(acts).callback>>
            [] Head(acts).kind = "menu" -> Callbacks(ms, ms[Head(acts).menu].actions)
            [] OTHER -> <<>>)
         \o Callbacks(ms, Tail(acts))

AppSectionCallbacks(ms) ==
    Callbacks(ms, [k \in 1..Len(AppSection(ms)) |-> AppSection(ms)[k].action])

CommandOf(callback) == CHOOSE c \in Registry : c.callback = callback

\* the places of a command in the app section
InAppSection(cmd) == {p \in Places(cmd, 1..Len(menus)) : SectionOf(menus, p) = 2}

\* C25: the app section shows the commands app by app in the order of the
\* app names, "Other Items" standing for the commands of no app; an app, or
\* "Other Items", with several commands has a sub-menu of its name that holds
\* them, the only command of an app stands at the root unless it is a
\* favourite.
C25_AppsInOrder ==
    EnabledBuilt =>
        /\ \A i, j \in 1..Len(AppSectionCallbacks(menus)) :
              i < j => ~StrLess(AppNameOf(CommandOf(AppSectionCallbacks(menus)[j])),
                                AppNameOf(CommandOf(AppSectionCallbacks(menus)[i])))
        /\ \A c \in Registry :
              IF Cardinality(GroupOf(c)) > 1
              THEN /\ Cardinality(InAppSection(c)) = 1
                   /\ \A p \in InAppSection(c) :
                         /\ p[1] \in Children(menus, ROOT)
                         /\ menus[p[1]].title = AppNameOf(c)
                         /\ \A d \in GroupOf(c) : Places(d, {p[1]}) # {}
              ELSE IF NamedBy(c) = {}
              THEN Cardinality(InAppSection(c)) = 1 /\ InAppSection(c) \subseteq Places(c, {ROOT})
              ELSE InAppSection(c) = {}

\* two commands of no app in their sub-menu and a command of an app, built
\* from a registry iterated in another order
C25_Witness ==
    /\ EnabledBuilt
    /\ previous.shuffled
    /\ \E m \in Children(menus, ROOT) :
          menus[m].title = <<"Other Items">> /\ Len(menus[m].actions) = 2
    /\ \E c \in Registry : Has(c.properties, "app")

----------------------------------------------------------------------------
(* Tasks that fire after tear-down, checked under SpecDispatch *)

\* the event loop fires the oldest pending task in this step
Fires == timers # <<>> /\ timers' = Tail(timers)

\* C26 (as claimed): a task that fires once the engine is destroyed lets no
\* error reach the event loop: what its callback raises is caught and logged
\* by the exception trap.
C26_TrapAfterDestroy ==
    [][(~current_engine /\ Fires) => escaped' = escaped]_vars

----------------------------------------------------------------------------
(* Failures inside a document change, checked under SpecController *)

\* C27 (as claimed): a document change lets no error reach the event loop and
\* leaves the menu it found, the disabled menu, or the complete menu of an
\* enabled build, whatever fails on the way.
C27_NeverPartial ==
    [][Handled =>
         /\ escaped' = escaped
         /\ \/ menus' = menus
            \/ IsDisabledMenu(menus')
            \/ \E r \in {create_menu(EmptyMenu, FALSE, context', cmd_registry',
                                     fav_setting')} :
                   ~r.raised /\ menus' = r.menus]_vars

----------------------------------------------------------------------------
(* One execution per invocation, checked under SpecDispatchFair *)

Starts(id) == Cardinality(Positions("start", id))

\* every start and every end of a callback belongs to an invocation that
\* came before it, and no invocation has started or ended twice
OncePerInvocation ==
    /\ \A k \in 1..Len(history) :
          history[k].ev # "invoke" =>
              \E j \in 1..(k - 1) : history[j] = Event("invoke", history[k].id,
                                                       history[j].note)
    /\ \A id \in Ids :
          /\ Cardinality(Positions("invoke", id)) = 1
          /\ Starts(id) <= 1
          /\ Cardinality(Positions("end", id)) <= Starts(id)
    /\ timers = <<>> => \A id \in Ids : Starts(id) = 1

\* C28: every invocation of a wrapped callback leads to one execution of the
\* callback and no more, also when a callback runs a nested event loop: the
\* callback of an invocation never starts twice, and it does start.
C28_ExactlyOnce ==
    /\ []OncePerInvocation
    /\ \A id \in 1..MaxInvocations :
          [](Happened("invoke", id) => <>Happened("start", id))

\* two invocations have run, the second inside the nested event loop of the
\* first
C28_Witness ==
    /\ Invocations = 2
    /\ CallbackOf(1) = "pump"
    /\ Happened("end", 1) /\ Happened("end", 2)
    /\ At("start", 2) < At("end", 1)
    /\ timers = <<>>

----------------------------------------------------------------------------
(* The scene operation 'reset', checked under SpecScene *)

SavesOf(calls) == {k \in 1..Len(calls) : calls[k] \in {"save", "saveAsTemp"}}

\* the hook is called for a reset in this step
ResetCalled == scene'.n = scene.n + 1 /\ scene'.operation = "reset"

\* C29: a reset of a project with unsaved changes that the user cancels
\* returns False and makes no call on the project, which keeps its changes
\* and its path; every other reset ends with new() and returns True, and it
\* saves the project, once and before new(), if and only if the project had
\* unsaved changes and the user answered Yes.
C29_Reset ==
    [][ResetCalled =>
         IF ~scene.clean /\ scene'.answer = "Cancel"
         THEN /\ scene'.returned = "False"
              /\ scene'.calls = <<>>
              /\ ~scene'.clean
              /\ scene_path' = scene_path
         ELSE /\ scene'.returned = "True"
              /\ scene'.calls # <<>>
              /\ \A k \in 1..Len(scene'.calls) :
                    scene'.calls[k] = "new" <=> k = Len(scene'.calls)
              /\ SavesOf(scene'.calls) # {} <=> (~scene.clean /\ scene'.answer = "Yes")
              /\ Cardinality(SavesOf(scene'.calls)) <= 1
              /\ scene'.clean
              /\ scene_path' = ""]_vars

\* a project without a path and with unsaved changes was saved and reset
C29_Witness ==
    /\ scene.operation = "reset"
    /\ ~scene.was_clean
    /\ scene.answer = "Yes"
    /\ scene.calls = <<"saveAsTemp", "new">>

====
